---- MODULE Spec2Model ----
(***************************************************************************)
(* Model of the versioned merge loader of the daily GMV job                *)
(* (q2/app/main.py, GmvEtlJob.load_data_to_delta and GmvEtlJob.run).       *)
(*                                                                         *)
(* The destination table silver.fct_gmv_diario is a sequence of rows; the  *)
(* position of a row is its identity (Delta never reorders or removes a    *)
(* row here, the sequence order itself carries no meaning).  Every Delta   *)
(* commit (create, merge, append) is one atomic step; a run is a process   *)
(* whose position pc[r] walks through load_data_to_delta.                  *)
(*                                                                         *)
(* df_to_load is a lazy DataFrame: snap[r] is the set of (gmv_date,        *)
(* subsidiary, gmv_total_day) it evaluates to; calculation_timestamp is    *)
(* current_timestamp() of the query that evaluates it, so the rows are     *)
(* stamped with the clock of the write that materialises them.             *)
(***************************************************************************)
EXTENDS Integers, Sequences, FiniteSets, TLC

\* ---------------------------------------------------------------- bounds
MaxLoads == 3
MaxRows == 3
MaxConcLoads == 3
MaxRuns == 2
MaxPurchases == 2
MaxInfos == 2
MaxLiveLoads == 2
MaxChanges == 1

\* ------------------------------------------------------------ value sets
NULL == "NULL"
Dates == {"D1", "D2"}
Subsidiaries == {"A", NULL}
Totals == {10, 12}
Runs == {1, 2}

Keys == Dates \X Subsidiaries

KeyOf(row) == <<row.gmv_date, row.subsidiary>>

SnapshotRow == [gmv_date : Dates, subsidiary : Subsidiaries, gmv_total_day : Totals]

\* groupBy("release_date", "subsidiary") yields one row per group, NULL being
\* a group of its own
Snapshots ==
    {s \in SUBSET SnapshotRow : \A x, y \in s : KeyOf(x) = KeyOf(y) => x = y}

RECURSIVE SetToSeq(_)
SetToSeq(S) ==
    IF S = {} THEN <<>>
    ELSE LET x == CHOOSE y \in S : TRUE IN <<x>> \o SetToSeq(S \ {x})

\* ------------------------------------------------------- pure operations

\* withColumn("calculation_timestamp", current_timestamp())
\* .withColumn("is_latest", lit(True)), evaluated at time t
Stamp(x, t) ==
    [gmv_date |-> x.gmv_date, subsidiary |-> x.subsidiary,
     gmv_total_day |-> x.gmv_total_day,
     calculation_timestamp |-> t, is_latest |-> TRUE]

\* the rows df_to_load evaluates to at time t
Evaluate(s, t) == SetToSeq({Stamp(x, t) : x \in s})

\* df_to_load.rdd.isEmpty()
RddNeverEmpty(s) == FALSE

RddIsEmpty(s) == s = {}

\* SQL equality: a comparison with NULL is not true
SqlEq(a, b) == a # NULL /\ b # NULL /\ a = b

\* "target.gmv_date = source.gmv_date AND target.subsidiary =
\*  source.subsidiary AND target.is_latest = true"
MergeConditionNoDate(t, x) ==
    /\ SqlEq(t.subsidiary, x.subsidiary)
    /\ t.is_latest = TRUE

MergeCondition(t, x) ==
    /\ SqlEq(t.gmv_date, x.gmv_date)
    /\ SqlEq(t.subsidiary, x.subsidiary)
    /\ t.is_latest = TRUE

\* whenMatchedUpdate(set={"is_latest": lit(False)})
WhenMatchedUpdate(t) == [t EXCEPT !.is_latest = FALSE]

\* target_table.merge(source, condition).whenMatchedUpdate(...).execute()
MergeToggle(d, s) ==
    [i \in 1..Len(d) |->
        IF \E x \in s : SqlEq(d[i].gmv_date, x.gmv_date)
                        /\ SqlEq(d[i].subsidiary, x.subsidiary)
        THEN [d[i] EXCEPT !.is_latest = ~d[i].is_latest]
        ELSE d[i]]

MergeExecute(d, s) ==
    [i \in 1..Len(d) |->
        IF \E x \in s : MergeCondition(d[i], x)
        THEN WhenMatchedUpdate(d[i])
        ELSE d[i]]

\* df_to_load.write.format("delta").mode("append").saveAsTable(...)
WriteOverwrite(d, s, t) == Evaluate(s, t)

WriteAtomicMerge(d, s, t) == MergeExecute(d, s) \o Evaluate(s, t)

WriteIfAbsent(d, s, t) ==
    d \o SetToSeq({Stamp(x, t) : x \in
            {y \in s : ~\E i \in 1..Len(d) :
                          /\ KeyOf(d[i]) = KeyOf(y)
                          /\ d[i].gmv_total_day = y.gmv_total_day}})

WriteAppend(d, s, t) == d \o Evaluate(s, t)

\* df_to_load.write.format("delta").partitionBy("gmv_date").saveAsTable(...)
WriteCreateNoNull(s, t) == Evaluate({x \in s : x.subsidiary # NULL}, t)

WriteCreate(s, t) == Evaluate(s, t)

\* ------------------------------------------- transform_gmv_snapshot

PurchaseIds == {1, 2}
Partitions == {"P1"}
Datetimes == {1, 2}
ReleaseDates == {NULL, "D1"}
Statuses == {"APROVADA", "PENDENTE"}
Values == {0, 10}
SourceSubsidiaries == {"A", "B"}

PurchaseRecord ==
    [purchase_id : PurchaseIds, purchase_partition : Partitions,
     transaction_datetime : Datetimes, release_date : ReleaseDates,
     purchase_status : Statuses, purchase_total_value : Values]

InfoRecord ==
    [purchase_id : PurchaseIds, purchase_partition : Partitions,
     transaction_datetime : Datetimes, subsidiary : SourceSubsidiaries]

\* the subsets of S with at most n elements
RECURSIVE UpTo(_, _)
UpTo(S, n) ==
    IF n = 0 THEN {{}}
    ELSE LET smaller == UpTo(S, n - 1)
         IN  smaller \cup {T \cup {x} : T \in smaller, x \in S}

\* ["purchase_id", "purchase_partition"]
NatKey(x) == <<x.purchase_id, x.purchase_partition>>

\* Window.partitionBy(partition_keys)
PartitionOf(df, k) == {x \in df : NatKey(x) = k}

\* the orders in which a sort can leave the rows of one partition
RECURSIVE Orderings(_)
Orderings(P) ==
    IF P = {} THEN {<<>>}
    ELSE UNION {{<<x>> \o q : q \in Orderings(P \ {x})} : x \in P}

\* .orderBy(col(order_key).desc()): ties are left in any order
OrderByAsc(P) ==
    {q \in Orderings(P) :
        \A i, j \in 1..Len(q) :
            i < j => q[i].transaction_datetime <= q[j].transaction_datetime}

OrderByDesc(P) ==
    {q \in Orderings(P) :
        \A i, j \in 1..Len(q) :
            i < j => q[i].transaction_datetime >= q[j].transaction_datetime}

\* row_number().over(window_spec): the position in the sorted partition
RowNumber(q, i) == i

\* withColumn("rn", ...).filter(col("rn") == 1).drop("rn") on one sorted
\* partition
FilterRn1(q) == {q[i] : i \in {j \in 1..Len(q) : RowNumber(q, j) = 1}}

\* _get_latest_records: every result the window can produce
GetLatestRecordsRank(df) ==
    {{x \in df : \A y \in PartitionOf(df, NatKey(x)) :
                    y.transaction_datetime <= x.transaction_datetime}}

GetLatestRecordsAsc(df) ==
    LET keys == {NatKey(x) : x \in df}
        picks == {f \in [keys -> df] :
                    \A k \in keys :
                        \E q \in OrderByAsc(PartitionOf(df, k)) :
                            f[k] \in FilterRn1(q)}
    IN  {{f[k] : k \in keys} : f \in picks}

GetLatestRecords(df) ==
    LET keys == {NatKey(x) : x \in df}
        picks == {f \in [keys -> df] :
                    \A k \in keys :
                        \E q \in OrderByDesc(PartitionOf(df, k)) :
                            f[k] \in FilterRn1(q)}
    IN  {{f[k] : k \in keys} : f \in picks}

\* one row of latest_purchase.join(latest_purchase_info, [...], "left")
Joined(p, s) ==
    [purchase_id |-> p.purchase_id, purchase_partition |-> p.purchase_partition,
     release_date |-> p.release_date, purchase_status |-> p.purchase_status,
     purchase_total_value |-> p.purchase_total_value, subsidiary |-> s]

InnerJoin(lp, li) ==
    UNION {{Joined(p, i.subsidiary) : i \in {j \in li : NatKey(j) = NatKey(p)}} :
              p \in lp}

LeftJoin(lp, li) ==
    UNION {LET matches == {i \in li : NatKey(i) = NatKey(p)}
           IN  IF matches = {} THEN {Joined(p, NULL)}
               ELSE {Joined(p, i.subsidiary) : i \in matches} : p \in lp}

\* (col("release_date").isNotNull()) & (col("purchase_status") == "APROVADA")
EligibleAnyStatus(j) == j.release_date # NULL

Eligible(j) == j.release_date # NULL /\ j.purchase_status = "APROVADA"

\* _sum("purchase_total_value") over the rows of one group
RECURSIVE SumValues(_)
SumValues(G) ==
    IF G = {} THEN 0
    ELSE LET x == CHOOSE y \in G : TRUE
         IN  x.purchase_total_value + SumValues(G \ {x})

\* groupBy("release_date", "subsidiary").agg(...)
\* .withColumnRenamed("release_date", "gmv_date")
DailyGmvPerPurchase(rows) ==
    {[gmv_date |-> j.release_date, subsidiary |-> j.subsidiary,
      gmv_total_day |-> j.purchase_total_value] : j \in rows}

DailyGmv(rows) ==
    {[gmv_date |-> g[1], subsidiary |-> g[2],
      gmv_total_day |->
          SumValues({j \in rows : <<j.release_date, j.subsidiary>> = g})] :
        g \in {<<j.release_date, j.subsidiary>> : j \in rows}}

\* joined_df.filter(...) then the aggregation
GmvOfJoined(joined) == DailyGmv({j \in joined : Eligible(j)})

\* ------------------------------------------------------------------ state
VARIABLES
    dest,       \* rows of silver.fct_gmv_diario
    exists,     \* DeltaTable.isDeltaTable(spark, target_table_name)
    pc,         \* position of each run
    snap,       \* what df_to_load of each run evaluates to
    now,        \* wall clock, one tick per started run
    version,    \* Delta log version of the destination, one per commit
    nloads,     \* number of load_data_to_delta calls started
    pre,        \* history: destination when the run's load started
    preExists,  \* history: exists when the run's load started
    prevSnap,   \* history: snapshot of the run's previous load, if completed
    prevDone,   \* history: the run's previous load ran to completion
    mergedAt,   \* history: version of the run's supersede commit (0: none)
    wroteAt,    \* history: version of the run's append/create commit (0: none)
    killedAt,   \* history: position at which the run was killed
    prevKilledAt, \* history: "append" if the run's previous load was killed there
    evals,      \* history: what df_to_load evaluated to, one entry per query
    nchanges,   \* number of changes of the source tables during loads
    failedAt,   \* stage of run() in which the run raised ("none": it did not)
    exitCode,   \* exit status of the process of each run (-1: still running)
    purchase_df,            \* bronze.purchase of the processing date
    purchase_extra_info_df, \* bronze.purchase_extra_info of the processing date
    latest_purchase,        \* _get_latest_records(purchase_df, ...)
    latest_purchase_info,   \* _get_latest_records(purchase_extra_info_df, ...)
    new_gmv_snapshot,       \* result of transform_gmv_snapshot
    tpc                     \* position inside transform_gmv_snapshot

tvars == <<purchase_df, purchase_extra_info_df, latest_purchase,
           latest_purchase_info, new_gmv_snapshot, tpc>>

\* what no step of load_data_to_delta touches
others == <<nchanges, failedAt, exitCode, tvars>>

vars == <<dest, exists, pc, snap, now, version, nloads, pre, preExists,
          prevSnap, prevDone, mergedAt, wroteAt, killedAt, prevKilledAt,
          evals, others>>

hist == <<pre, preExists, prevSnap, prevDone, mergedAt, wroteAt, killedAt,
          prevKilledAt>>

Resting == {"idle", "done", "killed", "failed"}
Active == {"isEmpty", "isDeltaTable", "create", "merge", "append"}

TypeOK ==
    /\ dest \in Seq([gmv_date : Dates, subsidiary : Subsidiaries,
                     gmv_total_day : Totals, calculation_timestamp : Nat,
                     is_latest : BOOLEAN])
    /\ exists \in BOOLEAN
    /\ pc \in [Runs -> Resting \cup Active]
    /\ snap \in [Runs -> Snapshots]
    /\ now \in Nat
    /\ version \in Nat
    /\ nloads \in 0..(MaxLoads + 1)

Init ==
    /\ dest = <<>>
    /\ exists = FALSE
    /\ pc = [r \in Runs |-> "idle"]
    /\ snap = [r \in Runs |-> {}]
    /\ now = 1
    /\ version = 0
    /\ nloads = 0
    /\ pre = [r \in Runs |-> <<>>]
    /\ preExists = [r \in Runs |-> FALSE]
    /\ prevSnap = [r \in Runs |-> {}]
    /\ prevDone = [r \in Runs |-> FALSE]
    /\ mergedAt = [r \in Runs |-> 0]
    /\ wroteAt = [r \in Runs |-> 0]
    /\ killedAt = [r \in Runs |-> "idle"]
    /\ prevKilledAt = [r \in Runs |-> "idle"]
    /\ evals = [r \in Runs |-> <<>>]
    /\ nchanges = 0
    /\ failedAt = [r \in Runs |-> "none"]
    /\ exitCode = [r \in Runs |-> -1]
    /\ purchase_df = {}
    /\ purchase_extra_info_df = {}
    /\ latest_purchase = {}
    /\ latest_purchase_info = {}
    /\ new_gmv_snapshot = {}
    /\ tpc = "idle"

\* ---------------------------------------------------------------- actions

\* run() hands the snapshot of this run to load_data_to_delta
StartLoad(r, s) ==
    /\ pc[r] \in Resting
    /\ Len(dest) + Cardinality(s) <= MaxRows
    /\ pc' = [pc EXCEPT ![r] = "isEmpty"]
    /\ snap' = [snap EXCEPT ![r] = s]
    /\ nloads' = nloads + 1
    /\ now' = now + 1
    /\ pre' = [pre EXCEPT ![r] = dest]
    /\ preExists' = [preExists EXCEPT ![r] = exists]
    /\ prevSnap' = [prevSnap EXCEPT ![r] =
                        IF pc[r] = "done" THEN snap[r] ELSE {}]
    /\ prevDone' = [prevDone EXCEPT ![r] = (pc[r] = "done")]
    /\ mergedAt' = [mergedAt EXCEPT ![r] = 0]
    /\ wroteAt' = [wroteAt EXCEPT ![r] = 0]
    /\ killedAt' = [killedAt EXCEPT ![r] = "idle"]
    /\ prevKilledAt' = [prevKilledAt EXCEPT ![r] =
                            IF killedAt[r] = "append" THEN "append" ELSE "idle"]
    /\ evals' = [evals EXCEPT ![r] = <<>>]
    /\ UNCHANGED <<dest, exists, version, others>>

Begin(r, s) ==
    /\ nloads < MaxLoads
    /\ StartLoad(r, s)

\* overlapping runs of one processing date: each carries one group of "D1"
BeginConc(r, s) ==
    /\ nloads < MaxConcLoads
    /\ Cardinality(s) = 1
    /\ \A x \in s : x.gmv_date = "D1"
    /\ StartLoad(r, s)

\* if df_to_load.rdd.isEmpty(): return
CheckEmpty(r) ==
    /\ pc[r] = "isEmpty"
    /\ pc' = [pc EXCEPT ![r] =
                IF RddIsEmpty(snap[r]) THEN "done" ELSE "isDeltaTable"]
    /\ evals' = [evals EXCEPT ![r] = Append(@, snap[r])]
    /\ UNCHANGED <<dest, exists, snap, now, version, nloads, hist, others>>

\* if not DeltaTable.isDeltaTable(...): ... else: ...
CheckDeltaTable(r) ==
    /\ pc[r] = "isDeltaTable"
    /\ pc' = [pc EXCEPT ![r] = IF ~exists THEN "create" ELSE "merge"]
    /\ UNCHANGED <<dest, exists, snap, now, version, nloads, hist, evals,
                   others>>

\* first write: saveAsTable in the default mode creates the table
CreateTable(r) ==
    /\ pc[r] = "create"
    /\ ~exists
    /\ dest' = WriteCreate(snap[r], now)
    /\ exists' = TRUE
    /\ pc' = [pc EXCEPT ![r] = "done"]
    /\ version' = version + 1
    /\ wroteAt' = [wroteAt EXCEPT ![r] = version + 1]
    /\ evals' = [evals EXCEPT ![r] = Append(@, snap[r])]
    /\ UNCHANGED <<snap, now, nloads, pre, preExists, prevSnap, prevDone,
                   mergedAt, killedAt, prevKilledAt, others>>

\* saveAsTable in the default mode (error if exists) on a table that another
\* run created meanwhile: the exception ends the run
CreateFails(r) ==
    /\ pc[r] = "create"
    /\ exists
    /\ pc' = [pc EXCEPT ![r] = "failed"]
    /\ UNCHANGED <<dest, exists, snap, now, version, nloads, hist, evals,
                   others>>

\* supersede phase: one Delta commit
SupersedePhase(r) ==
    /\ pc[r] = "merge"
    /\ dest' = MergeExecute(dest, snap[r])
    /\ pc' = [pc EXCEPT ![r] = "append"]
    /\ version' = version + 1
    /\ mergedAt' = [mergedAt EXCEPT ![r] = version + 1]
    /\ evals' = [evals EXCEPT ![r] = Append(@, snap[r])]
    /\ UNCHANGED <<exists, snap, now, nloads, pre, preExists, prevSnap,
                   prevDone, wroteAt, killedAt, prevKilledAt, others>>

\* append phase: one Delta commit
AppendPhase(r) ==
    /\ pc[r] = "append"
    /\ dest' = WriteAppend(dest, snap[r], now)
    /\ pc' = [pc EXCEPT ![r] = "done"]
    /\ version' = version + 1
    /\ wroteAt' = [wroteAt EXCEPT ![r] = version + 1]
    /\ evals' = [evals EXCEPT ![r] = Append(@, snap[r])]
    /\ UNCHANGED <<exists, snap, now, nloads, pre, preExists, prevSnap,
                   prevDone, mergedAt, killedAt, prevKilledAt, others>>

\* the run is killed externally between two steps
Kill(r) ==
    /\ pc[r] \in Active
    /\ killedAt' = [killedAt EXCEPT ![r] = pc[r]]
    /\ pc' = [pc EXCEPT ![r] = "killed"]
    /\ UNCHANGED <<dest, exists, snap, now, version, nloads, pre, preExists,
                   prevSnap, prevDone, mergedAt, wroteAt, prevKilledAt, evals,
                   others>>

\* a load while the capture layer writes to the bronze tables
BeginLive(r, s) ==
    /\ nloads < MaxLiveLoads
    /\ StartLoad(r, s)

\* records of the processing date reach bronze.purchase or
\* bronze.purchase_extra_info while the load runs: df_to_load is a lazy,
\* uncached plan over these tables, so its next evaluation yields s, which
\* differs from the previous result in one group
SourceChange(r, s) ==
    /\ pc[r] \in Active
    /\ nchanges < MaxChanges
    /\ s # snap[r]
    /\ \E k \in Keys : {x \in s : KeyOf(x) # k} = {x \in snap[r] : KeyOf(x) # k}
    /\ Len(dest) + Cardinality(s) <= MaxRows
    /\ snap' = [snap EXCEPT ![r] = s]
    /\ nchanges' = nchanges + 1
    /\ UNCHANGED <<dest, exists, pc, now, version, nloads, hist, evals,
                   failedAt, exitCode, tvars>>

\* ------------------------------------------------- run() and __main__

\* job = GmvEtlJob(); job.run(): a new process starts
BeginRun(r) ==
    /\ pc[r] \in {"idle", "exited"}
    /\ nloads < MaxRuns
    /\ nloads' = nloads + 1
    /\ pc' = [pc EXCEPT ![r] = "extract"]
    /\ failedAt' = [failedAt EXCEPT ![r] = "none"]
    /\ exitCode' = [exitCode EXCEPT ![r] = -1]
    /\ pre' = [pre EXCEPT ![r] = dest]
    /\ preExists' = [preExists EXCEPT ![r] = exists]
    /\ UNCHANGED <<dest, exists, snap, now, version, prevSnap, prevDone,
                   mergedAt, wroteAt, killedAt, prevKilledAt, evals, nchanges,
                   tvars>>

\* extract_source_data() returns the three DataFrames
ExtractAndCreate(r) ==
    /\ pc[r] = "extract"
    /\ pc' = [pc EXCEPT ![r] = "transform"]
    /\ exists' = TRUE
    /\ UNCHANGED <<dest, snap, now, version, nloads, hist, evals, others>>

ExtractSourceData(r) ==
    /\ pc[r] = "extract"
    /\ pc' = [pc EXCEPT ![r] = "transform"]
    /\ UNCHANGED <<dest, exists, snap, now, version, nloads, hist, evals,
                   others>>

\* an exception inside extract_source_data or transform_gmv_snapshot:
\* run() logs it and re-raises
StageRaises(r) ==
    /\ pc[r] \in {"extract", "transform"}
    /\ failedAt' = [failedAt EXCEPT ![r] = pc[r]]
    /\ pc' = [pc EXCEPT ![r] = "failed"]
    /\ UNCHANGED <<dest, exists, snap, now, version, nloads, hist, evals,
                   nchanges, exitCode, tvars>>

\* transform_gmv_snapshot() returns s and run() calls load_data_to_delta
TransformSnapshot(r, s) ==
    /\ pc[r] = "transform"
    /\ Len(dest) + Cardinality(s) <= MaxRows
    /\ pc' = [pc EXCEPT ![r] = "isEmpty"]
    /\ snap' = [snap EXCEPT ![r] = s]
    /\ now' = now + 1
    /\ evals' = [evals EXCEPT ![r] = <<>>]
    /\ UNCHANGED <<dest, exists, version, nloads, hist, others>>

\* an exception inside load_data_to_delta (destination unreachable, commit
\* conflict): run() logs it and re-raises
LoadRaises(r) ==
    /\ pc[r] \in Active
    /\ failedAt' = [failedAt EXCEPT ![r] = "load"]
    /\ pc' = [pc EXCEPT ![r] = "failed"]
    /\ UNCHANGED <<dest, exists, snap, now, version, nloads, hist, evals,
                   nchanges, exitCode, tvars>>

\* __main__: "except Exception" prints to stderr and falls through to the
\* finally block; nothing calls sys.exit, so the interpreter ends with
\* status 0 whether run() raised or not
MainExitStatus(raised) == 0

ProcessExit(r) ==
    /\ pc[r] \in {"done", "failed"}
    /\ pc' = [pc EXCEPT ![r] = "exited"]
    /\ exitCode' = [exitCode EXCEPT ![r] = MainExitStatus(failedAt[r] # "none")]
    /\ UNCHANGED <<dest, exists, snap, now, version, nloads, hist, evals,
                   nchanges, failedAt, tvars>>

\* ------------------------------------------- transform_gmv_snapshot

\* the whole of transform_gmv_snapshot, one query over the two inputs
TransformGmvSnapshot ==
    /\ tpc = "idle"
    /\ \E lp \in GetLatestRecords(purchase_df),
          li \in GetLatestRecords(purchase_extra_info_df) :
          /\ latest_purchase' = lp
          /\ latest_purchase_info' = li
          /\ new_gmv_snapshot' =
                {Stamp(x, now) : x \in GmvOfJoined(LeftJoin(lp, li))}
    /\ tpc' = "done"
    /\ UNCHANGED <<dest, exists, pc, snap, now, version, nloads, hist, evals,
                   nchanges, failedAt, exitCode, purchase_df,
                   purchase_extra_info_df>>

\* --------------------------------------------------------- specifications

\* single writer: the scheduler starts one run at a time (run 1 stands for
\* the successive daily processes); the source tables do not change while a
\* load runs, so every evaluation of df_to_load in a load yields snap[1]
Next ==
    \/ \E s \in Snapshots : Begin(1, s)
    \/ CheckEmpty(1)
    \/ CheckDeltaTable(1)
    \/ CreateTable(1)
    \/ SupersedePhase(1)
    \/ AppendPhase(1)
    \/ Kill(1)

Spec == Init /\ [][Next]_vars

\* no scheduling discipline: runs overlap freely
NextConc ==
    \/ \E r \in Runs, s \in Snapshots : BeginConc(r, s)
    \/ \E r \in Runs : CheckEmpty(r)
    \/ \E r \in Runs : CheckDeltaTable(r)
    \/ \E r \in Runs : CreateTable(r)
    \/ \E r \in Runs : CreateFails(r)
    \/ \E r \in Runs : SupersedePhase(r)
    \/ \E r \in Runs : AppendPhase(r)

SpecConc == Init /\ [][NextConc]_vars

\* single writer, every load runs to completion
NextSeq ==
    \/ \E s \in Snapshots : Begin(1, s)
    \/ CheckEmpty(1)
    \/ CheckDeltaTable(1)
    \/ CreateTable(1)
    \/ SupersedePhase(1)
    \/ AppendPhase(1)

SpecSeq == Init /\ [][NextSeq]_vars

\* single writer of the destination, the source tables change meanwhile
NextLive ==
    \/ \E s \in Snapshots : BeginLive(1, s)
    \/ \E s \in Snapshots : SourceChange(1, s)
    \/ CheckEmpty(1)
    \/ CheckDeltaTable(1)
    \/ CreateTable(1)
    \/ SupersedePhase(1)
    \/ AppendPhase(1)

SpecLive == Init /\ [][NextLive]_vars

\* whole runs of the job, one process at a time, every stage may raise
NextRun ==
    \/ BeginRun(1)
    \/ ExtractSourceData(1)
    \/ StageRaises(1)
    \/ \E s \in Snapshots : TransformSnapshot(1, s)
    \/ CheckEmpty(1)
    \/ CheckDeltaTable(1)
    \/ CreateTable(1)
    \/ SupersedePhase(1)
    \/ AppendPhase(1)
    \/ LoadRaises(1)
    \/ ProcessExit(1)

SpecRun == Init /\ [][NextRun]_vars

\* transform_gmv_snapshot over every pair of source DataFrames
InitTransform ==
    /\ dest = <<>>
    /\ exists = FALSE
    /\ pc = [r \in Runs |-> "idle"]
    /\ snap = [r \in Runs |-> {}]
    /\ now = 1
    /\ version = 0
    /\ nloads = 0
    /\ pre = [r \in Runs |-> <<>>]
    /\ preExists = [r \in Runs |-> FALSE]
    /\ prevSnap = [r \in Runs |-> {}]
    /\ prevDone = [r \in Runs |-> FALSE]
    /\ mergedAt = [r \in Runs |-> 0]
    /\ wroteAt = [r \in Runs |-> 0]
    /\ killedAt = [r \in Runs |-> "idle"]
    /\ prevKilledAt = [r \in Runs |-> "idle"]
    /\ evals = [r \in Runs |-> <<>>]
    /\ nchanges = 0
    /\ failedAt = [r \in Runs |-> "none"]
    /\ exitCode = [r \in Runs |-> -1]
    /\ purchase_df \in UpTo(PurchaseRecord, MaxPurchases)
    /\ purchase_extra_info_df \in UpTo(InfoRecord, MaxInfos)
    /\ latest_purchase = {}
    /\ latest_purchase_info = {}
    /\ new_gmv_snapshot = {}
    /\ tpc = "idle"

NextTransform == TransformGmvSnapshot

SpecTransform == InitTransform /\ [][NextTransform]_vars

\* ------------------------------------------------------------- properties

SnapKeys(s) == {KeyOf(x) : x \in s}

LatestRows(k) ==
    {i \in 1..Len(dest) : KeyOf(dest[i]) = k /\ dest[i].is_latest}

LatestCount(k) == Cardinality(LatestRows(k))

Measure(row) ==
    [gmv_date |-> row.gmv_date, subsidiary |-> row.subsidiary,
     gmv_total_day |-> row.gmv_total_day]

Appended(r) == (Len(pre[r]) + 1)..Len(dest)

\* C1: under single-writer operation, in every reachable state (the state
\* between supersede and append included) every (gmv_date, subsidiary)
\* pair, a NULL subsidiary included, has at most one row with is_latest.
C1_AtMostOneLatest == \A k \in Keys : LatestCount(k) <= 1

\* C2: a completed load of a non-empty snapshot on an existing destination
\* leaves the previous rows, is_latest cleared on exactly the previously
\* current rows whose key is the key of a snapshot row, followed by every
\* snapshot row with is_latest = true.
C2_MergeResult ==
    (pc[1] = "done" /\ preExists[1] /\ snap[1] # {}) =>
        /\ Len(dest) = Len(pre[1]) + Cardinality(snap[1])
        /\ \A i \in 1..Len(pre[1]) :
              dest[i] = IF pre[1][i].is_latest
                           /\ KeyOf(pre[1][i]) \in SnapKeys(snap[1])
                        THEN [pre[1][i] EXCEPT !.is_latest = FALSE]
                        ELSE pre[1][i]
        /\ {Measure(dest[i]) : i \in Appended(1)} = snap[1]
        /\ \A i \in Appended(1) : dest[i].is_latest

\* C3: a row whose is_latest is false keeps is_latest = false in every
\* step: no operation sets it back to true.
C3_NeverFlippedBack ==
    [][\A i \in 1..Len(dest) :
          ~dest[i].is_latest => (i <= Len(dest') /\ ~dest'[i].is_latest)]_vars

\* a supersede phase has run over a row that was already superseded and
\* whose key is in the snapshot being loaded
C3_Witness ==
    /\ pc[1] = "append"
    /\ \E i \in 1..Len(pre[1]) :
          /\ ~pre[1][i].is_latest
          /\ KeyOf(pre[1][i]) \in SnapKeys(snap[1])
          /\ ~dest[i].is_latest

\* C4: the destination is append-only: a step never removes a row and
\* never changes gmv_date, subsidiary, gmv_total_day or
\* calculation_timestamp of an existing row.
C4_AppendOnly ==
    [][/\ Len(dest') >= Len(dest)
       /\ \A i \in 1..Len(dest) :
             /\ Measure(dest'[i]) = Measure(dest[i])
             /\ dest'[i].calculation_timestamp = dest[i].calculation_timestamp]_vars

\* a load has superseded a row and appended after it
C4_Witness ==
    /\ pc[1] = "done"
    /\ Len(pre[1]) >= 1
    /\ Len(dest) > Len(pre[1])
    /\ \E i \in 1..Len(pre[1]) : pre[1][i].is_latest /\ ~dest[i].is_latest

\* C5: a step of a load leaves every row whose key does not occur in the
\* snapshot exactly as it was, is_latest included.
C5_UnrelatedUntouched ==
    [][\A i \in 1..Len(dest) :
          KeyOf(dest[i]) \notin SnapKeys(snap[1]) =>
              (i <= Len(dest') /\ dest'[i] = dest[i])]_vars

\* a load on an existing destination completed, it superseded one row and
\* left current a row of a key that its snapshot does not carry
C5_Witness ==
    /\ pc[1] = "done"
    /\ preExists[1]
    /\ \E i \in 1..Len(pre[1]) : pre[1][i].is_latest /\ ~dest[i].is_latest
    /\ \E i \in 1..Len(pre[1]) :
          /\ KeyOf(pre[1][i]) \notin SnapKeys(snap[1])
          /\ pre[1][i].is_latest
          /\ dest[i] = pre[1][i]

\* C6: a completed load of a non-empty snapshot on a destination that did
\* not exist creates it with exactly the rows of the snapshot, each
\* unchanged and with is_latest = true.
C6_CreateVerbatim ==
    (pc[1] = "done" /\ ~preExists[1] /\ snap[1] # {}) =>
        /\ exists
        /\ Len(dest) = Cardinality(snap[1])
        /\ {Measure(dest[i]) : i \in 1..Len(dest)} = snap[1]
        /\ \A i \in 1..Len(dest) : dest[i].is_latest

\* the first load created the table from a snapshot of two groups, one of
\* them with a NULL subsidiary
C6_Witness ==
    /\ pc[1] = "done"
    /\ ~preExists[1]
    /\ exists
    /\ Cardinality(snap[1]) = 2
    /\ \E x \in snap[1] : x.subsidiary = NULL

\* C7: a load of an empty snapshot changes nothing: an existing
\* destination keeps its rows and flags, a missing one is not created.
C7_EmptyNoOp ==
    (pc[1] = "done" /\ snap[1] = {}) =>
        (dest = pre[1] /\ exists = preExists[1])

\* a load of an empty snapshot returned on an existing destination with rows
C7_Witness ==
    /\ pc[1] = "done"
    /\ snap[1] = {}
    /\ preExists[1]
    /\ nloads >= 2
    /\ Len(dest) >= 1

\* both runs committed their supersede phase before either committed its
\* append phase, and both completed
BothSupersedeFirst ==
    /\ pc[1] = "done" /\ pc[2] = "done"
    /\ mergedAt[1] > 0 /\ mergedAt[2] > 0
    /\ mergedAt[1] < wroteAt[2]
    /\ mergedAt[2] < wroteAt[1]

\* C8: two overlapping loads whose snapshots share a key and whose
\* supersede phases both commit before their append phases leave more
\* than one row with is_latest = true for that key.
C8_RaceDuplicates ==
    \A k \in SnapKeys(snap[1]) \cap SnapKeys(snap[2]) :
        BothSupersedeFirst => LatestCount(k) >= 2

\* the race on a key with a subsidiary
C8_Witness ==
    /\ BothSupersedeFirst
    /\ <<"D1", "A">> \in SnapKeys(snap[1]) \cap SnapKeys(snap[2])
    /\ LatestCount(<<"D1", "A">>) >= 2

\* C9: loading the identical non-empty snapshot again, on the destination
\* the first load produced, changes the destination: it appends one more
\* is_latest = true row per snapshot row, duplicating key and total of a
\* row that is already there.
C9_NotIdempotent ==
    (pc[1] = "done" /\ prevDone[1] /\ snap[1] # {} /\ prevSnap[1] = snap[1]) =>
        /\ dest # pre[1]
        /\ Len(dest) = Len(pre[1]) + Cardinality(snap[1])
        /\ \A i \in Appended(1) :
              /\ dest[i].is_latest
              /\ Measure(dest[i]) \in snap[1]
              /\ \E j \in 1..Len(pre[1]) : Measure(pre[1][j]) = Measure(dest[i])

\* the same snapshot was loaded twice in a row
C9_Witness ==
    /\ pc[1] = "done"
    /\ prevDone[1]
    /\ snap[1] # {}
    /\ prevSnap[1] = snap[1]
    /\ Len(dest) >= 2 * Cardinality(snap[1])

\* C10: a run killed after the supersede commit and before the append
\* leaves the destination without any snapshot row and with no
\* is_latest = true row for the keys of the snapshot.
C10_KilledAfterSupersede ==
    (pc[1] = "killed" /\ killedAt[1] = "append") =>
        /\ Len(dest) = Len(pre[1])
        /\ \A k \in SnapKeys(snap[1]) : LatestCount(k) = 0

\* C11: a run in which a stage raised ends with a non-zero exit status,
\* never with the status of a run that completed.
C11_FailureExitsNonZero ==
    \A r \in Runs :
        (pc[r] = "exited" /\ failedAt[r] # "none") => exitCode[r] # 0

\* C12: a run that failed in extract_source_data or in
\* transform_gmv_snapshot has written nothing: the destination, its
\* existence included, is as it was when the run started.
C12_NoWriteBeforeLoad ==
    failedAt[1] \in {"extract", "transform"} =>
        (dest = pre[1] /\ exists = preExists[1])

\* the transformation raised in a run over a destination that has rows
C12_Witness ==
    /\ failedAt[1] = "transform"
    /\ pc[1] = "exited"
    /\ exists
    /\ Len(dest) >= 1
    /\ dest = pre[1]

\* the eligibility rule of the claims: release_date present and
\* purchase_status the approved literal
ApprovedWithRelease(p) ==
    p.release_date # NULL /\ p.purchase_status = "APROVADA"

\* x is a version of its natural key with the greatest transaction_datetime
IsLatestVersion(x, df) ==
    /\ x \in df
    /\ \A y \in PartitionOf(df, NatKey(x)) :
          y.transaction_datetime <= x.transaction_datetime

SnapshotDates == ReleaseDates \ {NULL}
SnapshotSubsidiaries == SourceSubsidiaries \cup {NULL}

SnapshotRowsOf(d, s) ==
    {x \in new_gmv_snapshot : x.gmv_date = d /\ x.subsidiary = s}

\* the subsidiaries a latest purchase_extra_info version gives the key k
LatestSubsidiaries(k) ==
    IF PartitionOf(purchase_extra_info_df, k) = {} THEN {NULL}
    ELSE {i.subsidiary : i \in {j \in purchase_extra_info_df :
                                    IsLatestVersion(j, purchase_extra_info_df)
                                    /\ NatKey(j) = k}}

\* the latest eligible purchase versions of the group (d, s)
LatestEligible(d, s) ==
    {p \in purchase_df :
        /\ IsLatestVersion(p, purchase_df)
        /\ ApprovedWithRelease(p)
        /\ p.release_date = d
        /\ s \in LatestSubsidiaries(NatKey(p))}

\* C13: the snapshot has a row for (gmv_date, subsidiary) exactly when some
\* natural key has a latest purchase version that is eligible with that
\* release_date and subsidiary, and its gmv_total_day is the sum of
\* purchase_total_value over those versions, one per natural key.
C13_SnapshotOfLatestEligible ==
    tpc = "done" =>
        \A d \in SnapshotDates, s \in SnapshotSubsidiaries :
            /\ (SnapshotRowsOf(d, s) # {}) <=> (LatestEligible(d, s) # {})
            /\ \A x \in SnapshotRowsOf(d, s) :
                  \E C \in SUBSET LatestEligible(d, s) :
                      /\ \A p \in LatestEligible(d, s) :
                            Cardinality({q \in C : NatKey(q) = NatKey(p)}) = 1
                      /\ x.gmv_total_day = SumValues(C)

\* the subsidiary the retained purchase_extra_info version gives to p
RetainedSubsidiary(p) ==
    LET matches == {i \in latest_purchase_info : NatKey(i) = NatKey(p)}
    IN  IF matches = {} THEN NULL ELSE (CHOOSE i \in matches : TRUE).subsidiary

RetainedEligible(d, s) ==
    {p \in latest_purchase :
        ApprovedWithRelease(p) /\ p.release_date = d /\ RetainedSubsidiary(p) = s}

\* C13 as amended: the same, the latest version of a natural key being the
\* version that _get_latest_records retained (one per key, of greatest
\* transaction_datetime; the only such version when no two tie).
C13_SnapshotOfRetainedEligible ==
    tpc = "done" =>
        /\ \A p \in latest_purchase : IsLatestVersion(p, purchase_df)
        /\ \A i \in latest_purchase_info :
              IsLatestVersion(i, purchase_extra_info_df)
        /\ \A d \in SnapshotDates, s \in SnapshotSubsidiaries :
              /\ (SnapshotRowsOf(d, s) # {}) <=> (RetainedEligible(d, s) # {})
              /\ \A x \in SnapshotRowsOf(d, s) :
                    x.gmv_total_day = SumValues(RetainedEligible(d, s))
        /\ \A x \in new_gmv_snapshot :
              x.gmv_date \in SnapshotDates /\ x.subsidiary \in SnapshotSubsidiaries

\* an approved and a pending purchase with a release date: only the
\* approved one is in the total, and the group of total zero is present
C13_Witness ==
    /\ tpc = "done"
    /\ \E p, q \in latest_purchase :
          /\ NatKey(p) # NatKey(q)
          /\ ApprovedWithRelease(p) /\ p.purchase_total_value = 0
          /\ q.release_date # NULL /\ q.purchase_status = "PENDENTE"
          /\ q.purchase_total_value = 10
    /\ \E x \in new_gmv_snapshot : x.gmv_total_day = 0
    /\ Cardinality(new_gmv_snapshot) = 1

\* the rows of out are rows of df of greatest transaction_datetime in their
\* partition, and every partition of df has a row in out
RetainsLatest(df, out) ==
    /\ \A x \in out : IsLatestVersion(x, df)
    /\ \A y \in df : \E x \in out : NatKey(x) = NatKey(y)

\* C14: the record _get_latest_records retains for a key is an input
\* record of that key with the greatest transaction_datetime of the key.
C14_RetainsMaximum ==
    tpc = "done" =>
        /\ RetainsLatest(purchase_df, latest_purchase)
        /\ RetainsLatest(purchase_extra_info_df, latest_purchase_info)

\* a key with an older and a newer version, the newer one retained
C14_Witness ==
    /\ tpc = "done"
    /\ \E x, y \in purchase_df :
          /\ NatKey(x) = NatKey(y)
          /\ x.transaction_datetime < y.transaction_datetime
          /\ y \in latest_purchase
          /\ x \notin latest_purchase

\* out has one record per partition key at most, no more records than df
\* has keys, and is empty exactly when df is
OnePerKey(df, out) ==
    /\ \A x, y \in out : NatKey(x) = NatKey(y) => x = y
    /\ Cardinality(out) <= Cardinality({NatKey(x) : x \in df})
    /\ (out = {}) <=> (df = {})

\* C15: the output of _get_latest_records has no two records of one
\* partition key, ties on the order field included, at most as many
\* records as the input has keys, and is empty iff the input is.
C15_OnePerKey ==
    tpc = "done" =>
        /\ OnePerKey(purchase_df, latest_purchase)
        /\ OnePerKey(purchase_extra_info_df, latest_purchase_info)

\* two versions of one key tie on transaction_datetime, one is retained
C15_Witness ==
    /\ tpc = "done"
    /\ \E x, y \in purchase_df :
          /\ x # y
          /\ NatKey(x) = NatKey(y)
          /\ x.transaction_datetime = y.transaction_datetime
          /\ x \in latest_purchase
    /\ Cardinality(latest_purchase) = 1

Unmatched(p) == PartitionOf(purchase_extra_info_df, NatKey(p)) = {}

\* C16: the join is a left join: a subsidiary reaches the snapshot only
\* through a purchase of the same natural key, and an eligible purchase
\* without enrichment record is summed into the group (release_date, NULL).
C16_LeftJoin ==
    tpc = "done" =>
        /\ \A x \in new_gmv_snapshot :
              x.subsidiary # NULL =>
                  \E p \in latest_purchase, i \in latest_purchase_info :
                      /\ NatKey(i) = NatKey(p)
                      /\ i.subsidiary = x.subsidiary
                      /\ ApprovedWithRelease(p)
                      /\ p.release_date = x.gmv_date
        /\ \A p \in latest_purchase :
              (ApprovedWithRelease(p) /\ Unmatched(p)) =>
                  \E x \in new_gmv_snapshot :
                      /\ x.gmv_date = p.release_date
                      /\ x.subsidiary = NULL
                      /\ x.gmv_total_day =
                            SumValues({q \in latest_purchase :
                                          /\ ApprovedWithRelease(q)
                                          /\ Unmatched(q)
                                          /\ q.release_date = p.release_date})

\* an eligible purchase without enrichment record next to an enrichment
\* record without purchase
C16_Witness ==
    /\ tpc = "done"
    /\ \E p \in latest_purchase :
          ApprovedWithRelease(p) /\ Unmatched(p) /\ p.purchase_total_value = 10
    /\ \E i \in latest_purchase_info : PartitionOf(purchase_df, NatKey(i)) = {}
    /\ new_gmv_snapshot # {}
    /\ \A x \in new_gmv_snapshot : x.subsidiary = NULL /\ x.gmv_total_day = 10

\* C17: no two rows of the snapshot have the same (gmv_date, subsidiary)
\* and every row has is_latest = true.
C17_SnapshotKeyUnique ==
    tpc = "done" =>
        /\ \A x, y \in new_gmv_snapshot : KeyOf(x) = KeyOf(y) => x = y
        /\ \A x \in new_gmv_snapshot : x.is_latest = TRUE

\* two eligible purchases with different values fall into one group
C17_Witness ==
    /\ tpc = "done"
    /\ \E p, q \in latest_purchase :
          /\ NatKey(p) # NatKey(q)
          /\ ApprovedWithRelease(p) /\ ApprovedWithRelease(q)
          /\ p.purchase_total_value # q.purchase_total_value
          /\ RetainedSubsidiary(p) = RetainedSubsidiary(q)
    /\ Cardinality(new_gmv_snapshot) = 1

RowsOfKey(k) == {i \in 1..Len(dest) : KeyOf(dest[i]) = k}

\* C18: between completed, non-overlapping loads every key that a loaded
\* snapshot carried (every key with a row: a completed load appends all
\* its rows) has exactly one is_latest = true row, the row that the most
\* recent load carrying the key appended (the last row of the key), with
\* that snapshot's gmv_total_day.
C18_OneCurrentRowPerLoadedKey ==
    pc[1] \in {"idle", "done"} =>
        \A k \in Keys :
            RowsOfKey(k) # {} =>
                /\ LatestCount(k) = 1
                /\ \A i \in LatestRows(k) :
                      /\ \A j \in RowsOfKey(k) : j <= i
                      /\ (pc[1] = "done" /\ k \in SnapKeys(snap[1])) =>
                              Measure(dest[i]) \in snap[1]

\* C19: when the load of a run was killed between supersede and append and
\* the re-run has completed, every key of the re-run's snapshot has
\* exactly one is_latest = true row and every earlier row is still there.
C19_RecoveryByRerun ==
    (pc[1] = "done" /\ prevKilledAt[1] = "append" /\ snap[1] # {}) =>
        /\ \A k \in SnapKeys(snap[1]) : LatestCount(k) = 1
        /\ Len(dest) >= Len(pre[1])
        /\ \A i \in 1..Len(pre[1]) : Measure(dest[i]) = Measure(pre[1][i])

\* C20: in a load on an existing destination the emptiness check, the
\* supersede phase and the append phase evaluate df_to_load to the same
\* snapshot, so the keys superseded are the keys appended, whatever
\* reaches the source tables meanwhile.
C20_OneSnapshotPerLoad ==
    (pc[1] = "done" /\ preExists[1] /\ Len(evals[1]) = 3) =>
        /\ evals[1][1] = evals[1][2]
        /\ evals[1][2] = evals[1][3]
        /\ SnapKeys(evals[1][2]) = SnapKeys(evals[1][3])

====
